---- MODULE Spec2Model ----
(***************************************************************************)
(* Model of the remote query gateway of the SQL assistant bot:             *)
(*   - AzureFunctionAuth (src/admin_dashboard.py): the probe loop that     *)
(*     tries the authentication methods against the Azure Function;        *)
(*   - SQLConsole (src/sql_console.py): the console message handler, its   *)
(*     commands and its per-session state.                                 *)
(* Strings that the code inspects character by character (the function     *)
(* URL and key) are sequences of one-character strings.                    *)
(***************************************************************************)
EXTENDS Integers, Sequences, FiniteSets, TLC

VARIABLES
    function_url,   \* AzureFunctionAuth.function_url
    function_key,   \* AzureFunctionAuth.function_key
    auth_method,    \* AzureFunctionAuth.auth_method ("None" until a probe succeeds)
    task,           \* the in-flight call_function coroutines, one record per task
    sql_translator, \* SQLConsole.sql_translator is set (not None)
    bot,            \* SQLConsole.bot is set (not None)
    sessions,       \* SQLConsole.sessions: session id -> session dict
    req,            \* the in-flight handle_message coroutines, one record per request
    performance_samples, \* UptimeTracker.performance_samples
    samples_added   \* the number of add_performance_sample calls so far (the clock
                    \* that the timestamps of the samples are read from)

authVars == <<function_url, function_key, auth_method, task>>

consoleVars == <<sql_translator, bot, sessions, req>>

trackerVars == <<performance_samples, samples_added>>

vars == <<function_url, function_key, auth_method, task,
          sql_translator, bot, sessions, req,
          performance_samples, samples_added>>

-----------------------------------------------------------------------------
(* Strings as character sequences.                                         *)

\* str.lower() on one character of the alphabet the URLs below are built from
LowerChar(c) ==
    CASE c = "C" -> "c"
      [] c = "O" -> "o"
      [] c = "D" -> "d"
      [] c = "E" -> "e"
      [] c = "H" -> "h"
      [] c = "I" -> "i"
      [] c = "L" -> "l"
      [] c = "P" -> "p"
      [] c = "S" -> "s"
      [] c = "T" -> "t"
      [] OTHER -> c

\* str.lower()
Lower(s) == [i \in 1..Len(s) |-> LowerChar(s[i])]

\* the Python test  sub in s
Contains(sub, s) ==
    \E i \in 0..(Len(s) - Len(sub)) : SubSeq(s, i + 1, i + Len(sub)) = sub

\* s.split(ch)[0]: the part of s before the first ch (all of s when ch is absent)
SplitFirst(s, ch) ==
    IF \E i \in 1..Len(s) : s[i] = ch
    THEN LET k == CHOOSE i \in 1..Len(s) :
                      s[i] = ch /\ \A j \in 1..(i - 1) : s[j] # ch
         IN SubSeq(s, 1, k - 1)
    ELSE s

\* str.split(): the maximal runs of characters that are not blanks
RECURSIVE Split(_)
Split(s) ==
    IF s = <<>> THEN <<>>
    ELSE IF Head(s) = " " THEN Split(Tail(s))
    ELSE LET n == IF \E i \in 1..Len(s) : s[i] = " "
                  THEN CHOOSE i \in 1..Len(s) :
                           s[i] = " " /\ \A j \in 1..(i - 1) : s[j] # " "
                  ELSE Len(s) + 1
         IN <<SubSeq(s, 1, n - 1)>> \o Split(SubSeq(s, n, Len(s)))

\* ' '.join(parts)
RECURSIVE Join(_)
Join(parts) ==
    IF parts = <<>> THEN <<>>
    ELSE IF Len(parts) = 1 THEN parts[1]
    ELSE parts[1] \o <<" ">> \o Join(Tail(parts))

CodeEq == <<"c", "o", "d", "e", "=">>

\* The configurations the instance is constructed with: no URL, a bare URL, a URL
\* with an embedded code= (lower and upper case), a URL with another query string.
Urls ==
    { <<>>,
      <<"h">>,
      <<"h", "?", "c", "o", "d", "e", "=", "k">>,
      <<"h", "?", "C", "O", "D", "E", "=", "k">>,
      <<"h", "?", "x", "=", "1">> }

Keys == { <<>>, <<"s">> }

-----------------------------------------------------------------------------
(* AzureFunctionAuth                                                       *)

Tasks == {"t1", "t2"}

\* What one POST can come to: an HTTP response (status, and whether its body
\* parses as JSON), or no response at all: status 0 stands for an exception
\* raised inside the try block (timeout, transport error, failed body read).
Statuses == {200, 401, 403, 404, 500}

Outcomes ==
    { [status |-> 200, body |-> "json"],
      [status |-> 200, body |-> "garbage"],
      [status |-> 401, body |-> "text"],
      [status |-> 403, body |-> "text"],
      [status |-> 404, body |-> "text"],
      [status |-> 500, body |-> "text"],
      [status |-> 0,   body |-> "none"] }

\* _get_auth_methods with a case-sensitive test for the embedded code
GetAuthMethods_CaseSensitive ==
    (IF Contains(CodeEq, function_url) THEN <<"url_embedded">> ELSE <<>>)
    \o (IF function_key # <<>> THEN <<"header_key">> ELSE <<>>)
    \o (IF function_key # <<>> THEN <<"url_key">> ELSE <<>>)
    \o <<"managed_identity">>

\* _get_auth_methods with the two key candidates appended in the other order
GetAuthMethods_UrlKeyFirst ==
    (IF Contains(CodeEq, Lower(function_url)) THEN <<"url_embedded">> ELSE <<>>)
    \o (IF function_key # <<>> THEN <<"url_key">> ELSE <<>>)
    \o (IF function_key # <<>> THEN <<"header_key">> ELSE <<>>)
    \o <<"managed_identity">>

\* _get_auth_methods with the second key block a copy of the first one
GetAuthMethods_HeaderKeyTwice ==
    (IF Contains(CodeEq, Lower(function_url)) THEN <<"url_embedded">> ELSE <<>>)
    \o (IF function_key # <<>> THEN <<"header_key">> ELSE <<>>)
    \o (IF function_key # <<>> THEN <<"header_key">> ELSE <<>>)
    \o <<"managed_identity">>

GetAuthMethods ==
    (IF Contains(CodeEq, Lower(function_url)) THEN <<"url_embedded">> ELSE <<>>)
    \o (IF function_key # <<>> THEN <<"header_key">> ELSE <<>>)
    \o (IF function_key # <<>> THEN <<"url_key">> ELSE <<>>)
    \o <<"managed_identity">>

\* 'code=' in self.function_url.lower(), as the failure dict reports it
UrlHasCode == Contains(CodeEq, Lower(function_url))

BaseUrl == IF Contains(<<"?">>, function_url)
           THEN SplitFirst(function_url, "?") ELSE function_url

\* the request _prepare_request builds: the URL and the x-functions-key header
\* (<<>> when the header is not set)
PrepareRequest(method) ==
    CASE method = "url_embedded"     -> [url |-> function_url, key_header |-> <<>>]
      [] method = "managed_identity" -> [url |-> BaseUrl, key_header |-> <<>>]
      [] method = "header_key"       -> [url |-> BaseUrl, key_header |-> function_key]
      [] method = "url_key"          ->
             [url |-> BaseUrl \o <<"?">> \o CodeEq \o function_key,
              key_header |-> <<>>]

\* url.split('?')[0] + "?..." if '?' in url else url
UrlUsed(url) ==
    IF Contains(<<"?">>, url)
    THEN SplitFirst(url, "?") \o <<"?", ".", ".", ".">>
    ELSE url

\* ProbeVerdict with the loop going on after a 200 (no return in the 200 branch)
ProbeVerdict_NoReturnOn200(o) ==
    CASE o.status = 200 \/ o.status = 401 \/ o.status = 0 -> "continue"
      [] OTHER -> "error"

\* ProbeVerdict with 404 handled like 401
ProbeVerdict_404TriesNext(o) ==
    CASE o.status = 200 /\ o.body = "json" -> "success"
      [] o.status = 200 /\ o.body # "json" -> "continue"
      [] o.status = 401 \/ o.status = 404  -> "continue"
      [] o.status = 0                      -> "continue"
      [] OTHER                             -> "error"

\* ProbeVerdict without the 401 branch: a 401 falls into the else branch
ProbeVerdict_No401Branch(o) ==
    CASE o.status = 200 /\ o.body = "json" -> "success"
      [] o.status = 200 /\ o.body # "json" -> "continue"
      [] o.status = 0                      -> "continue"
      [] OTHER                             -> "error"

\* What the loop body does with the outcome of one POST:
\*   "success"  the 200 branch returns the success dict,
\*   "continue" the 401 branch and the except clause go on to the next method,
\*   "error"    the else branch returns "Function error: <status>".
\* response.json() raises on a body that is no JSON, inside the try block.
ProbeVerdict(o) ==
    CASE o.status = 200 /\ o.body = "json" -> "success"
      [] o.status = 200 /\ o.body # "json" -> "continue"
      [] o.status = 401                    -> "continue"
      [] o.status = 0                      -> "continue"
      [] OTHER                             -> "error"

\* last_error after an outcome that continues the loop
LastError(method, o) ==
    IF o.status = 401
    THEN [what |-> "Authentication failed with", method |-> method]
    ELSE [what |-> "Error with", method |-> method]

NoError == [what |-> "None", method |-> "None"]

NoOutcome == [status |-> 0, body |-> "unsent"]

NoResult ==
    [success |-> FALSE, error |-> "None", status_code |-> 0, auth_method |-> "None",
     url_used |-> <<>>, tried_methods |-> <<>>, last_error |-> NoError,
     has_function_key |-> FALSE, url_has_code |-> FALSE]

\* A call_function coroutine: its locals (methods is auth_methods, idx the
\* position of the for loop, last_error), and what the call has done so far:
\* log, the requests it has sent, last, the outcome of its latest POST, and
\* result, the dict it returns. remembered is self.auth_method as it was when the
\* call started; revoked says that the POST with that method came back 401.
IdleTask ==
    [pc |-> "idle", methods |-> <<>>, idx |-> 0, last_error |-> NoError,
     log |-> <<>>, last |-> NoOutcome, remembered |-> "None", revoked |-> FALSE,
     result |-> NoResult]

AuthInit ==
    /\ function_url \in Urls
    /\ function_key \in Keys
    /\ auth_method = "None"
    /\ task = [t \in Tasks |-> IdleTask]
    /\ sql_translator = FALSE
    /\ bot = FALSE
    /\ sessions = <<>>
    /\ req = <<>>
    /\ performance_samples = <<>>
    /\ samples_added = 0

\* call_function up to the first POST: the URL check and _get_auth_methods.
CallStart(t) ==
    /\ task[t].pc = "idle"
    /\ IF function_url = <<>>
       THEN task' = [task EXCEPT ![t] =
                [IdleTask EXCEPT !.pc = "done",
                                 !.remembered = auth_method,
                                 !.result = [NoResult EXCEPT
                                     !.error = "No Azure Function URL configured"]]]
       ELSE task' = [task EXCEPT ![t] =
                [IdleTask EXCEPT !.pc = "loop",
                                 !.methods = GetAuthMethods,
                                 !.idx = 1,
                                 !.remembered = auth_method]]
    /\ UNCHANGED <<function_url, function_key, auth_method>>
    /\ UNCHANGED consoleVars
    /\ UNCHANGED trackerVars

\* One iteration of the for loop: the POST with the current method and what the
\* code does with its outcome, up to the next POST or the return.
Probe(t) ==
    /\ task[t].pc = "loop"
    /\ \E o \in Outcomes :
         LET me      == task[t]
             method  == me.methods[me.idx]
             prepared == PrepareRequest(method)
             sent    == [me EXCEPT
                           !.log = Append(me.log, [method |-> method, url |-> prepared.url,
                                                   key_header |-> prepared.key_header]),
                           !.last = o,
                           !.revoked = me.revoked
                               \/ (method = me.remembered /\ o.status = 401)]
             verdict == ProbeVerdict(o)
         IN
           CASE verdict = "success" ->
                  /\ auth_method' = method
                  /\ task' = [task EXCEPT ![t] = [sent EXCEPT
                        !.pc = "done",
                        !.result = [NoResult EXCEPT
                            !.success = TRUE,
                            !.status_code = o.status,
                            !.auth_method = method,
                            !.url_used = UrlUsed(prepared.url)]]]
             [] verdict = "error" ->
                  /\ auth_method' = auth_method
                  /\ task' = [task EXCEPT ![t] = [sent EXCEPT
                        !.pc = "done",
                        !.result = [NoResult EXCEPT
                            !.error = "Function error",
                            !.status_code = o.status,
                            !.auth_method = method]]]
             [] OTHER ->
                  /\ auth_method' = auth_method
                  /\ IF me.idx < Len(me.methods)
                     THEN task' = [task EXCEPT ![t] = [sent EXCEPT
                            !.idx = me.idx + 1,
                            !.last_error = LastError(method, o)]]
                     ELSE task' = [task EXCEPT ![t] = [sent EXCEPT
                            !.pc = "done",
                            !.last_error = LastError(method, o),
                            !.result = [NoResult EXCEPT
                                !.error = "All authentication methods failed",
                                !.tried_methods = me.methods,
                                !.last_error = LastError(method, o),
                                !.has_function_key = (function_key # <<>>),
                                !.url_has_code = UrlHasCode]]]
    /\ UNCHANGED <<function_url, function_key>>
    /\ UNCHANGED consoleVars
    /\ UNCHANGED trackerVars

\* CallReturn with the instance forgetting its method when a call returns
CallReturn_ForgetsMethod(t) ==
    /\ task[t].pc = "done"
    /\ task' = [task EXCEPT ![t] = IdleTask]
    /\ auth_method' = "None"
    /\ UNCHANGED <<function_url, function_key>>
    /\ UNCHANGED consoleVars
    /\ UNCHANGED trackerVars

\* the caller takes the returned dict; the coroutine and its locals are gone
CallReturn(t) ==
    /\ task[t].pc = "done"
    /\ task' = [task EXCEPT ![t] = IdleTask]
    /\ UNCHANGED <<function_url, function_key, auth_method>>
    /\ UNCHANGED consoleVars
    /\ UNCHANGED trackerVars

AuthNext ==
    \E t \in Tasks : CallStart(t) \/ Probe(t) \/ CallReturn(t)

AuthSpec == AuthInit /\ [][AuthNext]_vars

\* The calls of one caller, one after the other.
AuthSerialNext ==
    \E t \in {"t1"} : CallStart(t) \/ Probe(t) \/ CallReturn(t)

\* Every POST is made with aiohttp.ClientTimeout(total=timeout): it comes back or
\* raises, so a call that stands in its loop goes through its next iteration.
\* (A call reads nothing that another call writes, so the calls in flight with
\* it have no part in whether it ends.)
AuthLiveSpec ==
    AuthInit /\ [][AuthSerialNext]_vars /\ WF_vars(Probe("t1"))

-----------------------------------------------------------------------------
(* SQLConsole                                                              *)

Reqs == {"r1", "r2"}

\* Python's None where a string is expected
NoneVal == <<"<None>">>

\* a message that is no string (JSON number, list, ...)
NotAString == <<"<int>">>

W_help == <<"/", "h", "e", "l", "p">>
W_database == <<"/", "d", "a", "t", "a", "b", "a", "s", "e">>
W_list == <<"l", "i", "s", "t">>
W_set == <<"s", "e", "t">>
W_tables == <<"/", "t", "a", "b", "l", "e", "s">>
W_usage == <<"/", "u", "s", "a", "g", "e">>
W_clear == <<"/", "c", "l", "e", "a", "r">>

\* the messages the requests carry
M_help == <<"/", "h", "e", "l", "p">>
M_HELP == <<"/", "H", "E", "L", "P">>
M_database == <<"/", "d", "a", "t", "a", "b", "a", "s", "e">>
M_list == <<"/", "d", "a", "t", "a", "b", "a", "s", "e", " ", "l", "i", "s", "t">>
M_LIST == <<"/", "d", "a", "t", "a", "b", "a", "s", "e", " ", "L", "I", "S", "T">>
M_set == <<"/", "d", "a", "t", "a", "b", "a", "s", "e", " ", "s", "e", "t">>
M_set_hr == <<"/", "d", "a", "t", "a", "b", "a", "s", "e", " ", "s", "e", "t", " ", "h", "r">>
M_set_two == <<"/", "d", "a", "t", "a", "b", "a", "s", "e", " ", "s", "e", "t", " ", "m", "y", " ", "d", "b">>
M_tables == <<"/", "t", "a", "b", "l", "e", "s">>
M_usage == <<"/", "u", "s", "a", "g", "e">>
M_clear == <<"/", "c", "l", "e", "a", "r">>
M_foo == <<"/", "f", "o", "o">>
M_show == <<"s", "h", "o", "w", " ", "d", "a", "t", "a", "b", "a", "s", "e", "s">>
M_rows == <<"t", "o", "p", " ", "r", "o", "w", "s">>

Messages ==
    { M_help, M_HELP, M_database, M_list, M_LIST, M_set, M_set_hr,
      M_set_two, M_tables, M_usage, M_clear, M_foo, M_show, M_rows, NotAString }

\* the 'database' field of a request: absent, or a name
DbInputs == { NoneVal, <<"s", "a">> }

\* the 'session_id' field of a request: absent (the session is 'default'), or an id
SidInputs == { "<absent>", "s1" }

\* the JSON bodies: one that request.json() cannot parse, and the parsed ones
Bodies ==
    { [parsed |-> FALSE, message |-> <<>>, database |-> NoneVal, session_id |-> "<absent>"] }
    \cup { [parsed |-> TRUE, message |-> m, database |-> d, session_id |-> i] :
              m \in Messages, d \in DbInputs, i \in SidInputs }

\* Truthy with the test left out
Truthy_Always(v) == TRUE

\* truthiness of an optional string
Truthy(v) == v # NoneVal /\ v # <<>>

\* StartsWithSlash with no message taken for a command
StartsWithSlash_Never(m) == FALSE

\* message.startswith('/')
StartsWithSlash(m) == m # <<>> /\ Head(m) = "/"

\* ConversationContext(messages=[]): no dialogue turns, no database selected
NewContext == [messages |-> <<>>, current_database |-> NoneVal]

\* What bot._execute_sql_query comes to: a result dict with rows, one without
\* rows, one with an 'error', or an exception (whose str() may be empty, as it is
\* for asyncio.TimeoutError).
ExecOutcomes == {"rows", "empty", "error", "raise", "raise_blank"}

ExecFailed(o) == o \in {"error", "raise", "raise_blank"}

\* the names in the rows of a result
RowNames == <<"a", "b">>

\* What the POST of _call_function_metadata comes to.
MetaOutcomes == {"200_databases", "200_no_databases", "non_200", "exception"}

\* What translate_to_sql comes to: a statement, no statement with or without an
\* explanation, or an exception.
TranslateOutcomes == {"query", "empty_explained", "empty_unexplained", "raise"}

\* not sql_query.query: the translator has given no statement
EmptyStatement_Never(tr) == FALSE

EmptyStatement(tr) == tr \in {"empty_explained", "empty_unexplained"}

\* translate_to_sql has not been called for the request
NotCalled == [db |-> NoneVal, outcome |-> "None"]

\* the text of a reply: its wording, the name it quotes and the list it shows
NoContent == [text |-> "None", arg |-> NoneVal, items |-> <<>>]

\* the JSON object of a response (the keys a response does not carry are "None")
NoResponse ==
    [status |-> "None", response_type |-> "None", content |-> NoContent,
     error |-> "None", current_database |-> NoneVal, refresh_tables |-> FALSE,
     query |-> "None", rows |-> <<>>]

TextResponse(content) ==
    [NoResponse EXCEPT !.status = "success", !.response_type = "text",
                       !.content = content]

ErrorResponse(e) == [NoResponse EXCEPT !.status = "error", !.error = e]

\* A handle_message coroutine: the request it serves, where it is suspended
\* (pc), the argument of _get_tables (arg_db), the SQLQuery of the translator
\* (sql), the outcome of its latest remote call (remote), and what it returns.
\* translated is the call of translate_to_sql made for it: the current_database
\* of the context passed, and what the translator came to.
\* ctx is the ConversationContext its local 'context' refers to, once /clear has
\* put another one into the session (detached).
IdleReq ==
    [pc |-> "idle", message |-> <<>>, database |-> NoneVal, session_id |-> "None",
     arg_db |-> NoneVal, sql |-> "None", remote |-> "None", meta |-> "None",
     detached |-> FALSE, ctx |-> NewContext, translated |-> NotCalled,
     returned |-> "None", response |-> NoResponse]

Returned(r, resp) ==
    [r EXCEPT !.pc = "done", !.returned = "response", !.response = resp]

\* the coroutine returns None: _handle_command fell off its end
ReturnedNone(r) ==
    [r EXCEPT !.pc = "done", !.returned = "None"]

ConsoleInit ==
    /\ function_url \in { <<>>, <<"h">> }
    /\ function_key = <<>>
    /\ auth_method = "None"
    /\ task = [t \in Tasks |-> IdleTask]
    /\ sql_translator \in BOOLEAN
    /\ bot \in BOOLEAN
    /\ sessions = <<>>
    /\ req = [r \in Reqs |-> IdleReq]
    /\ performance_samples = <<>>
    /\ samples_added = 0

\* WithSession without the test  session_id not in self.sessions
WithSession_AlwaysFresh(sid, database) ==
    [i \in DOMAIN sessions \cup {sid} |->
        IF i = sid
        THEN [context |-> NewContext, current_database |-> database]
        ELSE sessions[i]]

\* sessions with the session created when the id is new
WithSession(sid, database) ==
    IF sid \in DOMAIN sessions THEN sessions
    ELSE [i \in DOMAIN sessions \cup {sid} |->
             IF i = sid
             THEN [context |-> NewContext, current_database |-> database]
             ELSE sessions[i]]

\* WithDatabase with the database kept for the console, not for the session
WithDatabase_AllSessions(ss, sid, database) ==
    IF database # NoneVal /\ database # <<>>
    THEN [i \in DOMAIN ss |->
             [ss[i] EXCEPT !.context.current_database = database,
                           !.current_database = database]]
    ELSE ss

\* "Update current database" of handle_message
WithDatabase(ss, sid, database) ==
    IF Truthy(database)
    THEN [ss EXCEPT ![sid].context.current_database = database,
                    ![sid].current_database = database]
    ELSE ss

\* the branch of _handle_command that a command takes
CommandBranch(command) ==
    LET parts == Split(command)
        cmd   == Lower(parts[1])
    IN CASE cmd = W_help -> "help"
         [] cmd = W_database ->
              IF Len(parts) > 1 /\ parts[2] = W_list THEN "database_list"
              ELSE IF Len(parts) > 2 /\ parts[2] = W_set THEN "database_set"
              ELSE "database_none"
         [] cmd = W_tables -> "tables"
         [] cmd = W_usage -> "usage"
         [] cmd = W_clear -> "clear"
         [] OTHER -> "unknown"

\* the reply of /database list for the list _get_databases returned
DatabasesResponse(databases) ==
    TextResponse([NoContent EXCEPT !.text = "Available Databases", !.items = databases])

\* the reply of /tables: its heading names database, its list is tables
TablesResponse(database, tables) ==
    TextResponse([text |-> "Tables in", arg |-> database, items |-> tables])

\* the local 'context' of a suspended coroutine
ContextOf(r) ==
    IF req[r].detached THEN req[r].ctx ELSE sessions[req[r].session_id].context

\* /clear binds session['context'] to a new object: the coroutines of the session
\* that are suspended with the old one keep referring to it
Detach(self, sid) ==
    [x \in Reqs |->
        IF x # self /\ req[x].pc = "await_exec" /\ req[x].session_id = sid
           /\ ~req[x].detached
        THEN [req[x] EXCEPT !.detached = TRUE, !.ctx = sessions[sid].context]
        ELSE req[x]]

\* _handle_command, up to its return or to the first await of a remote call.
\* ss is self.sessions as handle_message has left it, me the coroutine.
HandleCommand(r, me, ss) ==
    LET sid    == me.session_id
        parts  == Split(me.message)
        branch == CommandBranch(me.message)
    IN
      CASE branch = "help" ->
             /\ sessions' = ss
             /\ req' = [req EXCEPT ![r] = Returned(me,
                   [NoResponse EXCEPT !.status = "success", !.response_type = "help",
                                      !.content.text = "Help content"])]
        [] branch = "database_list" ->
             /\ sessions' = ss
             /\ req' = [req EXCEPT ![r] =
                   IF bot THEN [me EXCEPT !.pc = "await_dbs"]
                   ELSE Returned(me, DatabasesResponse(<<>>))]
        [] branch = "database_set" ->
             LET db_name == Join(SubSeq(parts, 3, Len(parts)))
             IN /\ sessions' = [ss EXCEPT ![sid].current_database = db_name,
                                          ![sid].context.current_database = db_name]
                /\ req' = [req EXCEPT ![r] = Returned(me,
                      [TextResponse([NoContent EXCEPT !.text = "Database set to",
                                                      !.arg = db_name])
                          EXCEPT !.current_database = db_name,
                                 !.refresh_tables = TRUE])]
        [] branch = "database_none" ->
             /\ sessions' = ss
             /\ req' = [req EXCEPT ![r] = ReturnedNone(me)]
        [] branch = "tables" ->
             /\ sessions' = ss
             /\ req' = [req EXCEPT ![r] =
                   IF ~Truthy(ss[sid].current_database)
                   THEN Returned(me, TextResponse(
                            [NoContent EXCEPT !.text = "Please select a database first"]))
                   ELSE IF bot
                   THEN [me EXCEPT !.pc = "await_tables",
                                   !.arg_db = ss[sid].current_database]
                   ELSE Returned([me EXCEPT !.arg_db = ss[sid].current_database],
                                 TablesResponse(ss[sid].current_database, <<>>))]
        [] branch = "usage" ->
             /\ sessions' = ss
             /\ \E usage \in {"summary", "no_token_limiter", "raise"} :
                  req' = [req EXCEPT ![r] =
                     IF sql_translator /\ usage = "summary"
                     THEN Returned(me, TextResponse(
                              [NoContent EXCEPT !.text = "Token Usage"]))
                     ELSE IF sql_translator /\ usage = "raise"
                     THEN Returned(me, ErrorResponse("exception"))
                     ELSE Returned(me, TextResponse(
                              [NoContent EXCEPT !.text = "Usage tracking not available"]))]
        [] branch = "clear" ->
             /\ sessions' = [ss EXCEPT ![sid].context = NewContext]
             /\ req' = [Detach(r, sid) EXCEPT ![r] = Returned(me, TextResponse(
                   [NoContent EXCEPT !.text = "Conversation history cleared."]))]
        [] OTHER ->
             /\ sessions' = ss
             /\ req' = [req EXCEPT ![r] = Returned(me, TextResponse(
                   [NoContent EXCEPT !.text = "Unknown command",
                                     !.arg = Lower(parts[1])]))]

\* the natural language path of handle_message, up to its return or to the await
\* of _execute_sql_query
NaturalLanguage(r, me, ss) ==
    /\ sessions' = ss
    /\ IF ~sql_translator
       THEN req' = [req EXCEPT ![r] =
                Returned(me, ErrorResponse("SQL translator not available"))]
       ELSE \E tr \in TranslateOutcomes :
              LET called == [me EXCEPT !.translated =
                                [db |-> ss[me.session_id].context.current_database,
                                 outcome |-> tr]]
              IN req' = [req EXCEPT ![r] =
                 CASE tr = "raise" -> Returned(called, ErrorResponse("exception"))
                   [] EmptyStatement(tr) ->
                        Returned(called, TextResponse(
                            [NoContent EXCEPT !.text =
                                IF tr = "empty_explained" THEN "explanation"
                                ELSE "I couldn't translate that to SQL"]))
                   [] OTHER ->
                        IF bot
                        THEN [called EXCEPT !.pc = "await_exec", !.sql = "SELECT",
                                 !.arg_db = ss[me.session_id].context.current_database]
                        ELSE Returned([called EXCEPT !.sql = "SELECT"],
                                      ErrorResponse("Bot not available"))]

\* handle_message from the arrival of a request, with a body out of bodies, to its
\* return or its first await of a remote call
BeginWith(r, bodies) ==
    /\ req[r].pc = "idle"
    /\ \E body \in bodies :
         LET sid == IF body.session_id = "<absent>" THEN "default" ELSE body.session_id
             me  == [IdleReq EXCEPT !.message = body.message,
                                    !.database = body.database,
                                    !.session_id = sid]
             ss  == WithDatabase(WithSession(sid, body.database), sid, body.database)
         IN IF ~body.parsed
            THEN /\ sessions' = sessions
                 /\ req' = [req EXCEPT ![r] = Returned(IdleReq, ErrorResponse("exception"))]
            ELSE IF body.message = NotAString
            THEN /\ sessions' = ss
                 /\ req' = [req EXCEPT ![r] = Returned(me, ErrorResponse("exception"))]
            ELSE IF StartsWithSlash(body.message)
            THEN HandleCommand(r, me, ss)
            ELSE NaturalLanguage(r, me, ss)
    /\ UNCHANGED <<sql_translator, bot>>
    /\ UNCHANGED authVars
    /\ UNCHANGED trackerVars

Begin(r) == BeginWith(r, Bodies)

\* requests of one session that touch its state, for the runs with two
\* requests in flight
OverlapBodies ==
    { b \in Bodies :
        /\ b.parsed /\ b.session_id = "<absent>"
        /\ b.message \in {M_set_hr, M_tables, M_clear, M_rows, M_list} }

BeginOverlap(r) == BeginWith(r, OverlapBodies)

\* _get_databases after bot._execute_sql_query has returned or raised
ResumeDatabases(r) ==
    /\ req[r].pc = "await_dbs"
    /\ \E o \in ExecOutcomes :
         LET me == [req[r] EXCEPT !.remote = o]
         IN req' = [req EXCEPT ![r] =
               CASE o = "rows" ->
                      Returned(me, DatabasesResponse(<<"master">> \o RowNames))
                 [] o \in {"raise", "raise_blank"} ->
                      Returned(me, DatabasesResponse(<<>>))
                 [] OTHER ->
                      IF function_url = <<>>
                      THEN Returned(me, DatabasesResponse(<<>>))
                      ELSE [me EXCEPT !.pc = "await_meta"]]
    /\ UNCHANGED <<sql_translator, bot, sessions>>
    /\ UNCHANGED authVars
    /\ UNCHANGED trackerVars

\* _get_databases after the POST of _call_function_metadata
ResumeMetadata(r) ==
    /\ req[r].pc = "await_meta"
    /\ \E m \in MetaOutcomes :
         LET me == [req[r] EXCEPT !.meta = m]
         IN req' = [req EXCEPT ![r] =
               IF m = "200_databases"
               THEN Returned(me, DatabasesResponse(<<"master", "sales">>))
               ELSE Returned(me, DatabasesResponse(<<>>))]
    /\ UNCHANGED <<sql_translator, bot, sessions>>
    /\ UNCHANGED authVars
    /\ UNCHANGED trackerVars

\* /tables after bot._execute_sql_query has returned or raised in _get_tables
ResumeTables(r) ==
    /\ req[r].pc = "await_tables"
    /\ \E o \in ExecOutcomes :
         LET me == [req[r] EXCEPT !.remote = o]
             db == sessions[me.session_id].current_database
         IN req' = [req EXCEPT ![r] =
               IF o = "rows"
               THEN Returned(me, TablesResponse(db, RowNames))
               ELSE Returned(me, TablesResponse(db, <<>>))]
    /\ UNCHANGED <<sql_translator, bot, sessions>>
    /\ UNCHANGED authVars
    /\ UNCHANGED trackerVars

\* handle_message after _execute_sql_query has returned
ResumeExec(r) ==
    /\ req[r].pc = "await_exec"
    /\ \E o \in ExecOutcomes :
         LET me   == [req[r] EXCEPT !.remote = o]
             rows == IF o = "rows" THEN RowNames ELSE <<>>
         IN req' = [req EXCEPT ![r] =
               CASE o = "error" -> Returned(me, ErrorResponse("remote error"))
                 [] o = "raise" -> Returned(me, ErrorResponse("exception"))
                 [] OTHER ->
                      Returned(me,
                         [NoResponse EXCEPT
                             !.status = "success",
                             !.response_type = "sql_result",
                             !.query = me.sql,
                             !.rows = rows,
                             !.current_database = ContextOf(r).current_database])]
    /\ UNCHANGED <<sql_translator, bot, sessions>>
    /\ UNCHANGED authVars
    /\ UNCHANGED trackerVars

\* the server has sent the reply: the coroutine is gone
Return(r) ==
    /\ req[r].pc = "done"
    /\ req' = [req EXCEPT ![r] = IdleReq]
    /\ UNCHANGED <<sql_translator, bot, sessions>>
    /\ UNCHANGED authVars
    /\ UNCHANGED trackerVars

\* One request at a time, any request.
ConsoleNext ==
    \E r \in {"r1"} :
        \/ Begin(r)
        \/ ResumeDatabases(r)
        \/ ResumeMetadata(r)
        \/ ResumeTables(r)
        \/ ResumeExec(r)
        \/ Return(r)

ConsoleSpec == ConsoleInit /\ [][ConsoleNext]_vars

\* Two requests of one session in flight together.
OverlapNext ==
    \E r \in Reqs :
        \/ BeginOverlap(r)
        \/ ResumeDatabases(r)
        \/ ResumeMetadata(r)
        \/ ResumeTables(r)
        \/ ResumeExec(r)
        \/ Return(r)

OverlapSpec == ConsoleInit /\ [][OverlapNext]_vars

-----------------------------------------------------------------------------
(* UptimeTracker                                                           *)

\* the number of samples add_performance_sample keeps
MaxSamples == 100

\* the add_performance_sample calls of a run
MaxAdded == 110

\* append, then pop(0) when the list has reached (not passed) the limit
AddPerformanceSample_PopsAtLimit(samples, sample) ==
    LET appended == Append(samples, sample)
    IN IF Len(appended) >= MaxSamples THEN Tail(appended) ELSE appended

\* self.performance_samples after add_performance_sample: append, then pop(0)
\* when the list has more than 100 samples
AddPerformanceSample(samples, sample) ==
    LET appended == Append(samples, sample)
    IN IF Len(appended) > MaxSamples THEN Tail(appended) ELSE appended

\* UptimeTracker(): no samples; the AzureFunctionAuth and the console are idle
TrackerInit ==
    /\ performance_samples = <<>>
    /\ samples_added = 0
    /\ function_url = <<>>
    /\ function_key = <<>>
    /\ auth_method = "None"
    /\ task = [t \in Tasks |-> IdleTask]
    /\ sql_translator = FALSE
    /\ bot = FALSE
    /\ sessions = <<>>
    /\ req = [r \in Reqs |-> IdleReq]

\* One call of add_performance_sample. A sample is known by its timestamp, the
\* moment of the call; its response_time_ms and endpoint take no part in what is
\* kept.
AddSample ==
    /\ samples_added < MaxAdded
    /\ samples_added' = samples_added + 1
    /\ performance_samples' =
          AddPerformanceSample(performance_samples, [timestamp |-> samples_added + 1])
    /\ UNCHANGED authVars
    /\ UNCHANGED consoleVars

TrackerNext == AddSample

TrackerSpec == TrackerInit /\ [][TrackerNext]_vars

-----------------------------------------------------------------------------
(* Properties of AzureFunctionAuth.call_function                           *)

IsOk(o) == o.status = 200 /\ o.body = "json"

\* the outcomes after which the loop goes on (or runs out of methods)
IsSoft(o) == o.status = 401 \/ o.status = 0 \/ (o.status = 200 /\ o.body # "json")

LastMethod(t) == task[t].log[Len(task[t].log)].method

NoMethodTwice(t) ==
    \A i, j \in 1..Len(task[t].log) :
        task[t].log[i].method = task[t].log[j].method => i = j

RECURSIVE TotalRequests(_)
TotalRequests(S) ==
    IF S = {} THEN 0
    ELSE LET t == CHOOSE x \in S : TRUE
         IN Len(task[t].log) + TotalRequests(S \ {t})

\* C1: a call that starts after some call has succeeded (auth_method is set), and
\* that succeeds itself with that remembered method, has sent exactly one request:
\* it has probed no other candidate. (A call whose remembered method fails is C6's.)
C1_LaterCallsSendOneRequest ==
    \A t \in Tasks :
        (/\ task[t].pc = "done"
         /\ task[t].remembered # "None"
         /\ task[t].result.success
         /\ task[t].result.auth_method = task[t].remembered)
            => (Len(task[t].log) = 1 /\ task[t].log[1].method = task[t].remembered)

\* C2: within one call no request is sent after a POST that came back 200 with a
\* parseable body: a step never adds a request to the log of such a call, so the
\* candidates after the successful one are not probed and one probe at most succeeds.
C2_NoRequestAfterSuccess ==
    [][\A t \in Tasks :
          IsOk(task[t].last) =>
              /\ task[t].pc = "done" /\ task[t].result.success
              /\ task'[t].log = task[t].log \/ task'[t] = IdleTask]_vars

C2_Witness ==
    \E t \in Tasks :
        /\ task[t].pc = "done" /\ IsOk(task[t].last)
        /\ Len(task[t].log) >= 2
        /\ Len(task[t].log) < Len(task[t].methods)

C4_401And403TryNext ==
    \A t \in Tasks :
        (task[t].last.status \in {401, 403} /\ Len(task[t].log) < Len(task[t].methods))
            => (task[t].pc = "loop" /\ task[t].idx = Len(task[t].log) + 1)

\* C5: a POST that comes back 200 with a body that is no JSON ends the call with
\* a failure; no further candidate is probed.
C5_Malformed200Aborts ==
    \A t \in Tasks :
        (task[t].last.status = 200 /\ task[t].last.body # "json")
            => (task[t].pc = "done" /\ ~task[t].result.success)

C7_BurstProbesCandidatesOnce ==
    (\A t \in Tasks : task[t].pc = "loop" /\ task[t].revoked)
        => TotalRequests(Tasks) <= Len(GetAuthMethods)

\* C10: when the URL holds code=, the first request of every call is the URL as
\* configured, without the x-functions-key header, before any other candidate.
C10_EmbeddedCodeProbedFirst ==
    \A t \in Tasks :
        (UrlHasCode /\ Len(task[t].log) >= 1) =>
            /\ task[t].log[1].method = "url_embedded"
            /\ task[t].log[1].url = function_url
            /\ task[t].log[1].key_header = <<>>

C10_Witness ==
    \E t \in Tasks :
        /\ UrlHasCode /\ function_key # <<>>
        /\ function_url # Lower(function_url)
        /\ Len(task[t].log) >= 2

\* the methods that send the separately configured key
KeyMethods == {"header_key", "url_key"}

\* C11: when the URL holds no code=, the request without any credential (the bare
\* URL, no key header) is sent before the requests that carry the configured key,
\* in the header or in the query string.
C11_AnonymousBeforeKeyCandidates ==
    \A t \in Tasks :
        ~UrlHasCode =>
            \A i, j \in 1..Len(task[t].log) :
                (task[t].log[i].method = "managed_identity"
                    /\ task[t].log[j].method \in KeyMethods) => i < j

\* C12: a request that carries the separate key, in the x-functions-key header
\* or as ?code= in the URL, is sent only when a key is configured; it carries that
\* key at the base URL; and in a call that sends both, the one with the header
\* is sent before the one with the query parameter.
C12_KeyCandidatesNeedKeyHeaderFirst ==
    \A t \in Tasks :
        \A i \in 1..Len(task[t].log) :
            LET sent == task[t].log[i]
            IN /\ (sent.method \in KeyMethods \/ sent.key_header # <<>>)
                      => function_key # <<>>
               /\ sent.method = "header_key" =>
                      (sent.key_header = function_key /\ sent.url = BaseUrl)
               /\ sent.method = "url_key" =>
                      /\ sent.key_header = <<>>
                      /\ sent.url = BaseUrl \o <<"?">> \o CodeEq \o function_key
                      /\ \E j \in 1..(i - 1) : task[t].log[j].method = "header_key"

C12_Witness ==
    \E t \in Tasks :
        \E i, j \in 1..Len(task[t].log) :
            /\ i < j
            /\ task[t].log[i].method = "header_key"
            /\ task[t].log[j].method = "url_key"
            /\ task[t].pc = "done"

\* what has to hold of a call at every moment for C13: no candidate has been
\* requested twice, there are no more requests than candidates, and a call that
\* has ended has a result: a success, or a failure with its error; after a POST
\* that timed out (or raised) the call has ended only when all the candidates
\* have been requested, and then with the failure "All authentication methods
\* failed".
OneRequestPerCandidate(t) ==
    /\ NoMethodTwice(t)
    /\ Len(task[t].log) <= Len(task[t].methods)
    /\ task[t].pc = "done" =>
          /\ task[t].result.success \/ task[t].result.error # "None"
          /\ task[t].result.success => IsOk(task[t].last)
          /\ task[t].last.status = 0 /\ task[t].log # <<>> =>
                /\ ~task[t].result.success
                /\ task[t].result.error = "All authentication methods failed"
                /\ Len(task[t].log) = Len(task[t].methods)

\* C13: every call comes to its end with a result, having sent at most one
\* request per candidate: nothing is requested twice, and a call whose probes
\* time out ends with a failure result once the candidates are used up.
C13_CallTerminates ==
    /\ [](\A t \in Tasks : OneRequestPerCandidate(t))
    /\ \A t \in Tasks : (task[t].pc = "loop") ~> (task[t].pc = "done")

C13_Witness ==
    \E t \in Tasks :
        /\ task[t].pc = "done"
        /\ task[t].last.status = 0
        /\ Len(task[t].log) = 4
        /\ task[t].last_error.what = "Error with"
        /\ ~task[t].result.success

\* C14: a failure result of a call that has sent requests lists the candidates
\* that were requested, in their order, and says of each one what it came to.
\* (The outcomes a result holds are last_error, which names one method, and
\* status_code with auth_method.)
C14_FailureCarriesAttemptsAndOutcomes ==
    \A t \in Tasks :
        (task[t].pc = "done" /\ ~task[t].result.success /\ task[t].log # <<>>) =>
            /\ Len(task[t].result.tried_methods) = Len(task[t].log)
            /\ \A i \in 1..Len(task[t].log) :
                  /\ task[t].result.tried_methods[i] = task[t].log[i].method
                  /\ \/ task[t].result.last_error.method = task[t].log[i].method
                     \/ task[t].result.auth_method = task[t].log[i].method

\* C15: self.auth_method is one value of the instance, for all its callers. It is
\* unset or one of the candidates of the configuration; once set it is never
\* unset again; it changes only in the step in which a POST comes back 200 with
\* a parseable body, and after every such step it is the method of that POST.
C15_OneActiveMethod ==
    /\ [](auth_method = "None" \/ \E i \in 1..Len(GetAuthMethods) :
                                     auth_method = GetAuthMethods[i])
    /\ [][/\ auth_method # "None" => auth_method' # "None"
          /\ \A t \in Tasks :
                (task[t].pc = "loop" /\ task'[t].pc = "done" /\ task'[t].result.success)
                    => auth_method' = task'[t].result.auth_method
          /\ auth_method' # auth_method =>
                \E t \in Tasks :
                    /\ task[t].pc = "loop" /\ task'[t].pc = "done"
                    /\ task'[t].result.success
                    /\ auth_method' = task'[t].result.auth_method]_vars

C15_Witness ==
    \E t, u \in Tasks :
        /\ t # u
        /\ task[t].pc = "done" /\ task[t].result.success
        /\ task[t].remembered # "None"
        /\ task[t].result.auth_method # task[t].remembered
        /\ auth_method = task[t].result.auth_method
        /\ task[u].pc = "done" /\ ~task[u].result.success

-----------------------------------------------------------------------------
(* Properties of SQLConsole.handle_message                                 *)

\* the command a finished or suspended request carries ("none" for free text)
BranchOf(r) ==
    IF req[r].message # NotAString /\ StartsWithSlash(req[r].message)
    THEN CommandBranch(req[r].message)
    ELSE "none"

\* the last remote call made for the request failed
RemoteFailed(r) ==
    IF req[r].meta # "None"
    THEN req[r].meta \in {"non_200", "exception"}
    ELSE ExecFailed(req[r].remote)

\* C8: every request that handle_message has finished got a response object, a
\* success or an error reply; it never got None.
C8_AlwaysAResponse ==
    \A r \in Reqs :
        req[r].pc = "done" =>
            /\ req[r].returned = "response"
            /\ req[r].response.status \in {"success", "error"}

\* C9: when the remote call made for /database list or /tables has failed, the
\* reply is an error reply.
C9_RemoteFailureIsAnError ==
    \A r \in Reqs :
        (/\ req[r].pc = "done"
         /\ BranchOf(r) \in {"database_list", "tables"}
         /\ RemoteFailed(r))
            => (req[r].returned = "response" /\ req[r].response.status = "error")

\* the names that the /database set messages of the requests select
SetNames ==
    { Join(SubSeq(Split(m), 3, Len(Split(m)))) : m \in {M_set_hr, M_set_two} }

\* C16: the requests name one database only (DbInputs) and /database set the
\* names of SetNames, so a session whose current_database is one of SetNames had
\* it from a /database set that no later /database set and no database of a
\* request has overridden. In such a session, a free-text message whose request
\* names no database is translated with that name as the current database.
C16_SetDatabaseRoutesTranslation ==
    \A r \in Reqs :
        (/\ req[r].translated # NotCalled
         /\ ~Truthy(req[r].database)
         /\ sessions[req[r].session_id].current_database \in SetNames)
            => req[r].translated.db = sessions[req[r].session_id].current_database

\* C17: the step that serves /clear for a session that exists, in a request that
\* names no database, leaves the context of the session without messages and the
\* current database of the session as it was: the entry of the session dict and
\* the one of its context, which the translator and the sql_result reply read.
C17_ClearKeepsCurrentDatabase ==
    [][\A r \in Reqs :
          (/\ req[r].pc = "idle" /\ req'[r].pc = "done"
           /\ req'[r].message # NotAString
           /\ StartsWithSlash(req'[r].message)
           /\ CommandBranch(req'[r].message) = "clear"
           /\ ~Truthy(req'[r].database)
           /\ req'[r].session_id \in DOMAIN sessions)
              => LET sid == req'[r].session_id
                 IN /\ sessions'[sid].context.messages = <<>>
                    /\ sessions'[sid].current_database = sessions[sid].current_database
                    /\ sessions'[sid].context.current_database
                          = sessions[sid].context.current_database]_vars

\* C18: a request whose message is "/database list" or "show databases", in any
\* letter case, is served as the list of databases: the translator is not called
\* for it, and its reply is the "Available Databases" reply made from the remote
\* call of _get_databases.
C18_ShowDatabasesIsDatabaseList ==
    \A r \in Reqs :
        (/\ req[r].pc = "done"
         /\ req[r].message # NotAString
         /\ Lower(req[r].message) \in {M_list, M_show})
            => /\ req[r].translated = NotCalled
               /\ req[r].returned = "response"
               /\ req[r].response.status = "success"
               /\ req[r].response.content.text = "Available Databases"

\* C19: a request whose message starts with '/' and is none of the commands (an
\* unknown first word, or /database without list or set <name>) gets the "Unknown
\* command" reply, a text reply with status success.
C19_UnknownCommandReply ==
    \A r \in Reqs :
        (req[r].pc = "done" /\ BranchOf(r) \in {"unknown", "database_none"})
            => /\ req[r].returned = "response"
               /\ req[r].response.status = "success"
               /\ req[r].response.response_type = "text"
               /\ req[r].response.content.text = "Unknown command"

IsCommand(r, branches) ==
    /\ req[r].pc # "idle"
    /\ req[r].message # NotAString
    /\ req[r].message # <<>>
    /\ Head(req[r].message) = "/"
    /\ CommandBranch(req[r].message) \in branches

\* C21: for a /database list or /tables request the translator is not called and
\* there is no statement of the translator; the calls made are the remote ones:
\* for /database list the enumeration (and the metadata POST after it), for
\* /tables the schema query against the current database of the session.
C21_CommandsBypassTranslator ==
    \A r \in Reqs :
        IsCommand(r, {"database_list", "tables"}) =>
            /\ req[r].translated = NotCalled
            /\ req[r].sql = "None"
            /\ IsCommand(r, {"database_list"}) =>
                  req[r].pc \in {"await_dbs", "await_meta", "done"}
            /\ IsCommand(r, {"tables"}) =>
                  /\ req[r].pc \in {"await_tables", "done"}
                  /\ req[r].meta = "None"
                  /\ (req[r].pc = "await_tables" \/ req[r].remote # "None") =>
                        /\ req[r].arg_db = sessions[req[r].session_id].current_database
                        /\ req[r].arg_db # NoneVal /\ req[r].arg_db # <<>>

C21_Witness ==
    \E r \in Reqs :
        /\ req[r].pc = "done" /\ req[r].message = M_tables
        /\ req[r].remote = "rows"
        /\ sql_translator

\* C22: the session map holds the ids 'default' and the ids the requests named,
\* and nothing else. A step never takes an id out of the map; an id comes into
\* the map only in the step in which a request with that id arrives, and after
\* that step the id of every request that arrived is in the map; a session that
\* is in the map is not made anew (its selected database is not lost).
C22_SessionsCreatedOnceAndKept ==
    /\ [](DOMAIN sessions \subseteq {"default", "s1"})
    /\ [][/\ DOMAIN sessions \subseteq DOMAIN sessions'
          /\ \A r \in Reqs :
                (req[r].pc = "idle" /\ req'[r].pc # "idle"
                    /\ req'[r].session_id # "None")
                    => req'[r].session_id \in DOMAIN sessions'
          /\ \A i \in DOMAIN sessions' \ DOMAIN sessions :
                \E r \in Reqs : req[r].pc = "idle" /\ req'[r].session_id = i
          /\ \A i \in DOMAIN sessions :
                (sessions[i].current_database # NoneVal
                    /\ sessions[i].current_database # <<>>)
                    => (sessions'[i].current_database # NoneVal
                          /\ sessions'[i].current_database # <<>>)]_vars

C22_Witness ==
    \E r \in Reqs :
        /\ req[r].pc = "done" /\ BranchOf(r) = "help"
        /\ DOMAIN sessions = {"default", "s1"}
        /\ req[r].database = NoneVal
        /\ sessions[req[r].session_id].current_database = <<"s", "a">>

\* C23: when a free-text request has ended with the sql_result reply (the remote
\* execution has succeeded), the context of its session ends with the turn made
\* of its message and the statement executed.
C23_SuccessAppendsTurn ==
    \A r \in Reqs :
        (req[r].pc = "done" /\ req[r].response.response_type = "sql_result") =>
            LET messages == sessions[req[r].session_id].context.messages
            IN /\ Len(messages) >= 1
               /\ messages[Len(messages)] = <<req[r].message, req[r].sql>>

\* C25: two requests of one session in flight together read and write the
\* session as if one had run after the other: what a request has read before it
\* awaits its remote call is what its reply is made with, the database the
\* statement was translated with in a sql_result reply, the database queried in
\* a /tables reply.
C25_RequestsOfASessionSerialized ==
    \A r \in Reqs :
        /\ (req[r].pc = "done" /\ req[r].response.response_type = "sql_result")
              => req[r].response.current_database = req[r].translated.db
        /\ (req[r].pc = "done" /\ IsCommand(r, {"tables"}) /\ req[r].remote # "None")
              => req[r].response.content.arg = req[r].arg_db

\* C26: the database that the heading of a /tables reply names is the database
\* that was passed to _get_tables for that reply.
C26_TablesHeadingIsQueriedDatabase ==
    \A r \in Reqs :
        (/\ req[r].pc = "done"
         /\ IsCommand(r, {"tables"})
         /\ req[r].response.content.text = "Tables in")
            => req[r].response.content.arg = req[r].arg_db

\* C27: in a session whose current database is set, the entry of the session
\* dict and the current_database of its context are the same.
C27_TwoCopiesAgree ==
    \A i \in DOMAIN sessions :
        Truthy(sessions[i].current_database)
            => sessions[i].context.current_database = sessions[i].current_database

\* C28: a step changes no session but the one of the request that arrives in
\* it: the sessions with other ids stay in the map as they are.
C28_SessionsIsolated ==
    [][\A i \in DOMAIN sessions :
          /\ i \in DOMAIN sessions'
          /\ sessions'[i] # sessions[i] =>
                \E r \in Reqs :
                    /\ req[r].pc = "idle" /\ req'[r].pc # "idle"
                    /\ req'[r].session_id = i]_vars

C28_Witness ==
    \E r \in Reqs :
        /\ req[r].pc = "done" /\ req[r].session_id = "s1"
        /\ req[r].database = <<"s", "a">>
        /\ DOMAIN sessions = {"default", "s1"}
        /\ sessions["default"].current_database = <<"h", "r">>
        /\ sessions["default"].context.current_database = <<"h", "r">>
        /\ sessions["s1"].current_database = <<"s", "a">>

-----------------------------------------------------------------------------
(* Properties of UptimeTracker                                             *)

\* C30: after any number of add_performance_sample calls the list holds the
\* samples of the latest calls, 100 of them at most, in the order of the calls:
\* all of them up to the 100th call, and from then on the latest 100.
C30_KeepsLatestSamples ==
    LET n == Len(performance_samples)
    IN /\ n <= 100
       /\ n = IF samples_added <= 100 THEN samples_added ELSE 100
       /\ \A i \in 1..n :
             performance_samples[i].timestamp = samples_added - n + i

C30_Witness ==
    /\ samples_added > 101
    /\ Len(performance_samples) = 100
    /\ performance_samples[1].timestamp = samples_added - 99

====
